---------------------------- MODULE Spec2Model ----------------------------
(***************************************************************************)
(* A model of blackbirdpy (src/blackbirdpy.py): the extraction of a tweet  *)
(* id from a tweet URL, the three linkify passes, the timestamp parsing    *)
(* and formatting, the template substitution and embed_tweet_html, which   *)
(* sequences them around one remote fetch.                                 *)
(*                                                                         *)
(* Text is a sequence of one-character strings, so that the regular        *)
(* expressions of the source are modelled by what they match, character by *)
(* character.  The literal pieces of TWEET_EMBED_HTML are kept as whole    *)
(* strings, each one element of the rendered sequence.                     *)
(***************************************************************************)
EXTENDS Integers, Sequences, FiniteSets, TLC

VARIABLES
    pc,                      \* the line embed_tweet_html is about to execute
    tweet_url,               \* argument tweet_url
    extra_css,               \* argument extra_css (a dict, or None)
    tweet_id,                \* local tweet_id
    error,                   \* the exception the call has raised, if any
    api_handle,              \* state of the handle urllib2.urlopen returned
    urlopen_calls,           \* number of calls of urllib2.urlopen in this run
    api_data,                \* what api_handle.read() returned
    tweet_json,              \* local tweet_json (a dict)
    tweet_text,              \* the body text as rewritten so far
    passes,                  \* the rewrites applied to the body text, in order
    tweet_created_datetime,  \* local tweet_created_datetime
    tweet_local_datetime,    \* local tweet_local_datetime
    tweet_easy_timestamp,    \* local tweet_easy_timestamp
    html                     \* the value returned

vars == <<pc, tweet_url, extra_css, tweet_id, error, api_handle, urlopen_calls,
          api_data, tweet_json, tweet_text, passes, tweet_created_datetime,
          tweet_local_datetime, tweet_easy_timestamp, html>>

---------------------------------------------------------------------------
(* Characters and the character classes of Python 2's re module (byte      *)
(* strings, no LOCALE or UNICODE flag).                                    *)

Digits == {"0", "1", "2", "3", "4", "5", "6", "7", "8", "9"}

Letters ==
    {"a", "b", "c", "d", "e", "f", "g", "h", "i", "j", "k", "l", "m",
     "n", "o", "p", "q", "r", "s", "t", "u", "v", "w", "x", "y", "z",
     "A", "B", "C", "D", "E", "F", "G", "H", "I", "J", "K", "L", "M",
     "N", "O", "P", "Q", "R", "S", "T", "U", "V", "W", "X", "Y", "Z"}

\* \w
WordChars == Letters \cup Digits \cup {"_"}

\* \s  (form feed and vertical tab are not part of the modelled alphabet)
SpaceChars == {" ", "\t", "\n", "\r"}

\* The position after literal lit when s holds it at position i, else 0.
MatchLiteral(s, i, lit) ==
    IF i >= 1 /\ i + Len(lit) - 1 <= Len(s) /\ SubSeq(s, i, i + Len(lit) - 1) = lit
    THEN i + Len(lit)
    ELSE 0

RECURSIVE SpanWhile(_, _, _)
\* The position after the longest run of characters of class cls that
\* starts at position i: a greedy cls* .
SpanWhile(s, i, cls) ==
    IF i <= Len(s) /\ s[i] \in cls THEN SpanWhile(s, i + 1, cls) ELSE i

RECURSIVE SpanUntil(_, _, _)
\* The position after the longest run of characters outside class cls
\* that starts at position i: a greedy [^cls]* .
SpanUntil(s, i, cls) ==
    IF i <= Len(s) /\ s[i] \notin cls THEN SpanUntil(s, i + 1, cls) ELSE i

---------------------------------------------------------------------------
(* tweet_id_from_tweet_url                                                 *)

HttpTwitterCom ==
    <<"h", "t", "t", "p", ":", "/", "/", "t", "w", "i", "t", "t", "e", "r", ".", "c", "o", "m", "/">>

SlashStatus == <<"/", "s", "t", "a", "t", "u", "s">>

InvalidTweetUrlPrefix ==
    <<"I", "n", "v", "a", "l", "i", "d", " ", "t", "w", "e", "e", "t", " ", "U", "R", "L", ":", " ">>

\* '$' without MULTILINE: the end of the string, or just before a newline
\* that is the last character of the string.
AtDollar(s, i) ==
    \/ i = Len(s) + 1
    \/ i = Len(s) /\ s[i] = "\n"

\* TweetUrlMatch with the pattern r'^http://twitter\.com/\w+/status/(\d+)$':
\* the optional 'es' forgotten.
TweetUrlMatchNoEs(s) ==
    LET p1 == MatchLiteral(s, 1, HttpTwitterCom)
        p2 == IF p1 = 0 THEN 0 ELSE SpanWhile(s, p1, WordChars)
        p3 == IF p1 = 0 \/ p2 = p1 THEN 0 ELSE MatchLiteral(s, p2, SlashStatus)
        p4 == IF p3 = 0 THEN 0 ELSE MatchLiteral(s, p3, <<"/">>)
        p5 == IF p4 = 0 THEN 0 ELSE SpanWhile(s, p4, Digits)
        ok == p4 # 0 /\ p5 > p4 /\ AtDollar(s, p5)
    IN  [matched |-> ok, group1 |-> IF ok THEN SubSeq(s, p4, p5 - 1) ELSE <<>>]

\* re.match(r'^http://twitter\.com/\w+/status(?:es)?/(\d+)$', tweet_url):
\* [matched, group1].  Every repetition is followed by a character outside
\* its class, so the greedy choice is the only one that can succeed.
TweetUrlMatch(s) ==
    LET p1 == MatchLiteral(s, 1, HttpTwitterCom)
        p2 == IF p1 = 0 THEN 0 ELSE SpanWhile(s, p1, WordChars)
        p3 == IF p1 = 0 \/ p2 = p1 THEN 0 ELSE MatchLiteral(s, p2, SlashStatus)
        p4 == IF p3 = 0 THEN 0
              ELSE IF MatchLiteral(s, p3, <<"e", "s", "/">>) # 0
                   THEN MatchLiteral(s, p3, <<"e", "s", "/">>)
                   ELSE MatchLiteral(s, p3, <<"/">>)
        p5 == IF p4 = 0 THEN 0 ELSE SpanWhile(s, p4, Digits)
        ok == p4 # 0 /\ p5 > p4 /\ AtDollar(s, p5)
    IN  [matched |-> ok, group1 |-> IF ok THEN SubSeq(s, p4, p5 - 1) ELSE <<>>]

\* No exception.
NoError == [kind |-> "none", arg |-> <<>>]

\* tweet_id_from_tweet_url(url): the value returned, or the ValueError raised
\* when match is None (match.group raises AttributeError).
tweet_id_from_tweet_url(url) ==
    LET match == TweetUrlMatch(url)
    IN  IF match.matched
        THEN [value |-> match.group1, error |-> NoError]
        ELSE [value |-> <<>>,
              error |-> [kind |-> "ValueError", arg |-> InvalidTweetUrlPrefix \o url]]

---------------------------------------------------------------------------
(* The linkify passes: re.sub with a pattern (^|[^\w])<trigger><body>.      *)
(* re.sub replaces the leftmost non-overlapping matches, scanning from the *)
(* left; a match consumes its boundary character.                          *)

NoMatch == [end |-> 0, g1 |-> <<>>, g2 |-> <<>>]

\* <trigger>(\w+)\b with the trigger at position j: the position after the
\* match (0: none) and group 2.  After the longest run of word characters
\* the \b holds, so the greedy match is the one re takes.
TriggerWord(s, j, trigger) ==
    LET e == SpanWhile(s, j + 1, WordChars)
    IN  IF j <= Len(s) /\ s[j] = trigger /\ e > j + 1
        THEN [end |-> e, g2 |-> SubSeq(s, j + 1, e - 1)]
        ELSE [end |-> 0, g2 |-> <<>>]

HttpScheme == <<"h", "t", "t", "p", ":", "/", "/">>

\* (http://[^\s]+) at position j.
HttpRun(s, j) ==
    LET p == MatchLiteral(s, j, HttpScheme)
        e == IF p = 0 THEN 0 ELSE SpanUntil(s, p, SpaceChars)
    IN  IF p # 0 /\ e > p
        THEN [end |-> e, g2 |-> SubSeq(s, j, e - 1)]
        ELSE [end |-> 0, g2 |-> <<>>]

\* The body of a pattern at position j: kind is "@", "#" or "http".
BodyAt(kind, s, j) ==
    IF kind = "http" THEN HttpRun(s, j) ELSE TriggerWord(s, j, kind)

\* (^|[^\w])<body> tried at position i: first the alternative ^ (only the
\* start of the string, no MULTILINE), then one non-word character.
MatchAt(kind, s, i) ==
    LET atStart == IF i = 1 THEN BodyAt(kind, s, i) ELSE [end |-> 0, g2 |-> <<>>]
        afterCh == IF s[i] \notin WordChars
                   THEN BodyAt(kind, s, i + 1)
                   ELSE [end |-> 0, g2 |-> <<>>]
    IN  IF atStart.end # 0 THEN [end |-> atStart.end, g1 |-> <<>>, g2 |-> atStart.g2]
        ELSE IF afterCh.end # 0
             THEN [end |-> afterCh.end, g1 |-> <<s[i]>>, g2 |-> afterCh.g2]
             ELSE NoMatch

AHrefTwitter == <<"<", "a", " ", "h", "r", "e", "f", "=", "\"", "h", "t", "t", "p", ":", "/", "/", "t", "w", "i", "t", "t", "e", "r", ".", "c", "o", "m", "/">>

AHrefSearch == <<"<", "a", " ", "h", "r", "e", "f", "=", "\"", "h", "t", "t", "p", ":", "/", "/", "t", "w", "i", "t", "t", "e", "r", ".", "c", "o", "m", "/", "s", "e", "a", "r", "c", "h", "?", "q", "=">>

AHref == <<"<", "a", " ", "h", "r", "e", "f", "=", "\"">>

CloseA == <<"<", "/", "a", ">">>

\* The replacement template of each pass, with \1 and \2 filled in.
Replacement(kind, m) ==
    IF kind = "@"
    THEN m.g1 \o AHrefTwitter \o m.g2 \o <<"\"", ">", "@">> \o m.g2 \o CloseA
    ELSE IF kind = "#"
    THEN m.g1 \o AHrefSearch \o m.g2 \o <<"\"", ">", "#">> \o m.g2 \o CloseA
    ELSE m.g1 \o AHref \o m.g2 \o <<"\"", ">">> \o m.g2 \o CloseA

\* The leftmost position from i on where the pattern matches, or 0.
NextMatch(kind, s, i) ==
    LET starts == {j \in i..Len(s) : MatchAt(kind, s, j).end # 0}
    IN  IF starts = {} THEN 0 ELSE CHOOSE j \in starts : \A k \in starts : j <= k

RECURSIVE ReSub(_, _, _)
\* re.sub of the pass kind on s, from position i on: the text up to the
\* next match as it stands, the match replaced, and on from its end.
ReSub(kind, s, i) ==
    LET j == NextMatch(kind, s, i)
    IN  IF j = 0 THEN SubSeq(s, i, Len(s))
        ELSE LET m == MatchAt(kind, s, j)
             IN  SubSeq(s, i, j - 1) \o Replacement(kind, m) \o ReSub(kind, s, m.end)

wrap_user_mention_with_link(text) == ReSub("@", text, 1)

wrap_hashtag_with_link(text) == ReSub("#", text, 1)

wrap_http_with_link(text) == ReSub("http", text, 1)

\* str.replace('\n', ' ')
ReplaceNewlines(text) ==
    [i \in 1..Len(text) |-> IF text[i] = "\n" THEN " " ELSE text[i]]

---------------------------------------------------------------------------
(* Dates and times: datetime.datetime and datetime.timedelta at a          *)
(* resolution of one second.                                               *)

IsLeap(y) == y % 4 = 0 /\ (y % 100 # 0 \/ y % 400 = 0)

DaysInMonth(y, m) ==
    IF m = 2 THEN (IF IsLeap(y) THEN 29 ELSE 28)
    ELSE IF m \in {4, 6, 9, 11} THEN 30 ELSE 31

\* Number of days before January 1st of year y.
DaysBeforeYear(y) ==
    (y - 1) * 365 + (y - 1) \div 4 - (y - 1) \div 100 + (y - 1) \div 400

RECURSIVE DaysBeforeMonth(_, _)
\* Number of days in year y before the first day of month m.
DaysBeforeMonth(y, m) ==
    IF m = 1 THEN 0 ELSE DaysBeforeMonth(y, m - 1) + DaysInMonth(y, m - 1)

\* date.toordinal(): January 1st of year 1 is day 1.
ToOrdinal(y, m, d) == DaysBeforeYear(y) + DaysBeforeMonth(y, m) + d

\* date.fromordinal(n)
FromOrdinal(n) ==
    LET y == CHOOSE yy \in (n \div 366)..(n \div 365 + 1) :
                 DaysBeforeYear(yy) < n /\ n <= DaysBeforeYear(yy + 1)
        r == n - DaysBeforeYear(y)
        m == CHOOSE mm \in 1..12 :
                 DaysBeforeMonth(y, mm) < r /\ r <= DaysBeforeMonth(y, mm) + DaysInMonth(y, mm)
    IN  [year |-> y, month |-> m, day |-> r - DaysBeforeMonth(y, m)]

NoDatetime == [year |-> 0, month |-> 0, day |-> 0, hour |-> 0, minute |-> 0, second |-> 0]

\* What the constructor datetime.datetime(y, m, d, hh, mm, ss) accepts.
ValidDatetime(y, m, d, hh, mm, ss) ==
    /\ y \in 1..9999 /\ m \in 1..12 /\ d \in 1..DaysInMonth(y, m)
    /\ hh \in 0..23 /\ mm \in 0..59 /\ ss \in 0..59

\* datetime + timedelta(seconds=n): the seconds are added to the second of
\* the day, the carry in days to the ordinal of the date, and the ordinal is
\* turned back into a date.
DatetimePlusSeconds(dt, n) ==
    LET total == dt.hour * 3600 + dt.minute * 60 + dt.second + n
        date  == FromOrdinal(ToOrdinal(dt.year, dt.month, dt.day) + total \div 86400)
        secs  == total % 86400
    IN  [year |-> date.year, month |-> date.month, day |-> date.day,
         hour |-> secs \div 3600, minute |-> (secs % 3600) \div 60, second |-> secs % 60]

\* datetime - timedelta(seconds=n)
DatetimeMinusSeconds(dt, n) == DatetimePlusSeconds(dt, 0 - n)

---------------------------------------------------------------------------
(* timestamp_string_to_datetime.  A timestamp string is modelled by the    *)
(* list of its whitespace-separated words (text.split()), each a sequence  *)
(* of characters.                                                          *)

DigitValue ==
    ("0" :> 0) @@ ("1" :> 1) @@ ("2" :> 2) @@ ("3" :> 3) @@ ("4" :> 4) @@
    ("5" :> 5) @@ ("6" :> 6) @@ ("7" :> 7) @@ ("8" :> 8) @@ ("9" :> 9)

RECURSIVE DecimalValue(_)
DecimalValue(ds) ==
    IF Len(ds) = 0 THEN 0
    ELSE DecimalValue(SubSeq(ds, 1, Len(ds) - 1)) * 10 + DigitValue[ds[Len(ds)]]

AllDigits(ds) == Len(ds) > 0 /\ \A i \in 1..Len(ds) : ds[i] \in Digits

\* Whether int(tok) succeeds: digits after an optional sign.
IsInt(tok) ==
    IF Len(tok) > 0 /\ tok[1] \in {"+", "-"} THEN AllDigits(Tail(tok)) ELSE AllDigits(tok)

\* int(tok)
IntValue(tok) ==
    IF tok[1] = "-" THEN 0 - DecimalValue(Tail(tok))
    ELSE IF tok[1] = "+" THEN DecimalValue(Tail(tok))
    ELSE DecimalValue(tok)

\* email._parseaddr._daynames, as the names are capitalised in the input
DayNames == <<<<"M", "o", "n">>,
      <<"T", "u", "e">>,
      <<"W", "e", "d">>,
      <<"T", "h", "u">>,
      <<"F", "r", "i">>,
      <<"S", "a", "t">>,
      <<"S", "u", "n">>>>

\* email._parseaddr._monthnames, as the names are capitalised in the input
MonthNames == <<<<"J", "a", "n">>,
      <<"F", "e", "b">>,
      <<"M", "a", "r">>,
      <<"A", "p", "r">>,
      <<"M", "a", "y">>,
      <<"J", "u", "n">>,
      <<"J", "u", "l">>,
      <<"A", "u", "g">>,
      <<"S", "e", "p">>,
      <<"O", "c", "t">>,
      <<"N", "o", "v">>,
      <<"D", "e", "c">>>>

InSeq(x, seq) == \E i \in 1..Len(seq) : seq[i] = x

IndexOf(x, seq) == CHOOSE i \in 1..Len(seq) : seq[i] = x

\* email._parseaddr._timezones
TimezoneNames == <<<<"U", "T">>,
      <<"U", "T", "C">>,
      <<"G", "M", "T">>,
      <<"Z">>,
      <<"A", "S", "T">>,
      <<"A", "D", "T">>,
      <<"E", "S", "T">>,
      <<"E", "D", "T">>,
      <<"C", "S", "T">>,
      <<"C", "D", "T">>,
      <<"M", "S", "T">>,
      <<"M", "D", "T">>,
      <<"P", "S", "T">>,
      <<"P", "D", "T">>>>

TimezoneValues == <<0, 0, 0, 0, 0 - 400, 0 - 300, 0 - 500, 0 - 400, 0 - 600, 0 - 500, 0 - 700, 0 - 600, 0 - 800, 0 - 700>>

StripComma(tok) ==
    IF Len(tok) > 0 /\ tok[Len(tok)] = "," THEN SubSeq(tok, 1, Len(tok) - 1) ELSE tok

RECURSIVE SplitOn(_, _)
\* str.split(sep) for a one-character separator.
SplitOn(s, sep) ==
    IF \A i \in 1..Len(s) : s[i] # sep THEN <<s>>
    ELSE LET k == CHOOSE i \in 1..Len(s) : s[i] = sep /\ \A j \in 1..(i - 1) : s[j] # sep
         IN  <<SubSeq(s, 1, k - 1)>> \o SplitOn(SubSeq(s, k + 1, Len(s)), sep)

ParsedNone ==
    [none |-> TRUE, yy |-> 0, mm |-> 0, dd |-> 0, thh |-> 0, tmm |-> 0, tss |-> 0,
     tznone |-> TRUE, tzoffset |-> 0]

\* Convert a timezone offset into seconds: -0500 -> -18000
TzSeconds(tzoffset) ==
    IF tzoffset < 0
    THEN 0 - (((0 - tzoffset) \div 100) * 3600 + ((0 - tzoffset) % 100) * 60)
    ELSE (tzoffset \div 100) * 3600 + (tzoffset % 100) * 60

\* email.utils.parsedate_tz on the words of the string: the fields of the
\* 10-tuple that line 64 reads (the first six and the last), or None.
parsedate_tz(words) ==
    LET data0 == IF Len(words) > 0 /\ (InSeq(StripComma(words[1]), DayNames)
                                       \/ words[1][Len(words[1])] = ",")
                 THEN Tail(words) ELSE words
    IN  IF Len(data0) < 5 THEN ParsedNone
        ELSE
        LET dd0 == data0[1]
            mm0 == data0[2]
            yy0 == data0[3]
            tm0 == data0[4]
            tz0 == data0[5]
            \* if mm not in _monthnames: dd, mm = mm, dd
            swapDM == ~InSeq(mm0, MonthNames)
            dd1 == StripComma(IF swapDM THEN mm0 ELSE dd0)
            mm1 == IF swapDM THEN dd0 ELSE mm0
            \* if yy.find(':') > 0: yy, tm = tm, yy
            swapYT == \E i \in 2..Len(yy0) : yy0[i] = ":"
            yy1 == StripComma(IF swapYT THEN tm0 ELSE yy0)
            tm1 == IF swapYT THEN yy0 ELSE tm0
            \* if not yy[0].isdigit(): yy, tz = tz, yy
            swapYZ == yy1[1] \notin Digits
            yy2 == IF swapYZ THEN tz0 ELSE yy1
            tz1 == IF swapYZ THEN yy1 ELSE tz0
            tm2 == SplitOn(StripComma(tm1), ":")
            thh == tm2[1]
            tmm == tm2[2]
            tss == IF Len(tm2) = 3 THEN tm2[3] ELSE <<"0">>
            tzknown == InSeq(tz1, TimezoneNames)
            tzint == IF tzknown THEN TimezoneValues[IndexOf(tz1, TimezoneNames)]
                     ELSE IF IsInt(tz1) THEN IntValue(tz1) ELSE 0
        IN  IF ~InSeq(mm1, MonthNames) THEN ParsedNone
            ELSE IF Len(tm2) \notin {2, 3} THEN ParsedNone
            ELSE IF ~(IsInt(yy2) /\ IsInt(dd1) /\ IsInt(thh) /\ IsInt(tmm) /\ IsInt(tss))
            THEN ParsedNone
            ELSE [none |-> FALSE,
                  yy |-> IntValue(yy2), mm |-> IndexOf(mm1, MonthNames),
                  dd |-> IntValue(dd1), thh |-> IntValue(thh),
                  tmm |-> IntValue(tmm), tss |-> IntValue(tss),
                  tznone |-> ~tzknown /\ ~IsInt(tz1),
                  tzoffset |-> TzSeconds(tzint)]

\* timestamp_string_to_datetime without the subtraction of tm_array[-1]: the
\* offset dropped.
timestamp_string_to_datetime_naive(text) ==
    LET tm_array == parsedate_tz(text)
    IN  IF tm_array.none
        THEN [value |-> NoDatetime, error |-> [kind |-> "TypeError", arg |-> <<>>]]
        ELSE IF ~ValidDatetime(tm_array.yy, tm_array.mm, tm_array.dd,
                               tm_array.thh, tm_array.tmm, tm_array.tss)
        THEN [value |-> NoDatetime, error |-> [kind |-> "ValueError", arg |-> <<>>]]
        ELSE [value |-> [year |-> tm_array.yy, month |-> tm_array.mm,
                         day |-> tm_array.dd, hour |-> tm_array.thh,
                         minute |-> tm_array.tmm, second |-> tm_array.tss],
              error |-> NoError]

\* timestamp_string_to_datetime(text): the datetime returned, or the error
\* raised: TypeError when parsedate_tz returns None (None[:6]) or leaves the
\* offset None (timedelta(seconds=None)), ValueError when datetime.datetime
\* rejects the fields.
timestamp_string_to_datetime(text) ==
    LET tm_array == parsedate_tz(text)
    IN  IF tm_array.none
        THEN [value |-> NoDatetime, error |-> [kind |-> "TypeError", arg |-> <<>>]]
        ELSE IF ~ValidDatetime(tm_array.yy, tm_array.mm, tm_array.dd,
                               tm_array.thh, tm_array.tmm, tm_array.tss)
        THEN [value |-> NoDatetime, error |-> [kind |-> "ValueError", arg |-> <<>>]]
        ELSE IF tm_array.tznone
        THEN [value |-> NoDatetime, error |-> [kind |-> "TypeError", arg |-> <<>>]]
        ELSE [value |-> DatetimeMinusSeconds(
                            [year |-> tm_array.yy, month |-> tm_array.mm,
                             day |-> tm_array.dd, hour |-> tm_array.thh,
                             minute |-> tm_array.tmm, second |-> tm_array.tss],
                            tm_array.tzoffset),
              error |-> NoError]

---------------------------------------------------------------------------
(* easy_to_read_timestamp_string                                           *)

DigitChar == <<"0", "1", "2", "3", "4", "5", "6", "7", "8", "9">>

\* A number below 100 in two digits, as %I, %M and %d print it.
Pad2(n) == <<DigitChar[(n \div 10) + 1], DigitChar[(n % 10) + 1]>>

\* A year in four digits, as %Y prints it.
Pad4(n) == Pad2(n \div 100) \o Pad2(n % 100)

\* date.weekday(): Monday is 0.
Weekday(dt) == (ToOrdinal(dt.year, dt.month, dt.day) + 6) % 7

\* dt.strftime('%I:%M %p %a %b %d, %Y') in the C locale
Strftime(dt) ==
    Pad2(((dt.hour + 11) % 12) + 1) \o <<":">> \o Pad2(dt.minute) \o <<" ">>
    \o (IF dt.hour < 12 THEN <<"A", "M">> ELSE <<"P", "M">>) \o <<" ">>
    \o DayNames[Weekday(dt) + 1] \o <<" ">>
    \o MonthNames[dt.month] \o <<" ">>
    \o Pad2(dt.day) \o <<",", " ">> \o Pad4(dt.year)

RECURSIVE StripZeros(_, _)
\* re.sub(r'(^| +)0', r'\1', s) from position i on: a zero at the start of
\* the string, or after a run of spaces, is dropped; the spaces are kept.
StripZeros(s, i) ==
    IF i > Len(s) THEN <<>>
    ELSE IF i = 1 /\ s[1] = "0" THEN StripZeros(s, 2)
    ELSE LET e == SpanWhile(s, i, {" "})
         IN  IF e > i /\ e <= Len(s) /\ s[e] = "0"
             THEN SubSeq(s, i, e - 1) \o StripZeros(s, e + 1)
             ELSE <<s[i]>> \o StripZeros(s, i + 1)

\* Python 2's strftime refuses a year before 1900.
StrftimeMinYear == 1900

\* easy_to_read_timestamp_string with dt.strftime(...).lstrip('0'): only the
\* zero at the start of the string dropped.
easy_to_read_lstrip(dt) ==
    IF Strftime(dt)[1] = "0" THEN Tail(Strftime(dt)) ELSE Strftime(dt)

easy_to_read_timestamp_string(dt) == StripZeros(Strftime(dt), 1)

---------------------------------------------------------------------------
(* TWEET_EMBED_HTML and its substitution.  The template is the sequence of *)
(* its literal pieces ({{ and }} unescaped, the class-name prefix bbpBox a *)
(* piece of its own) and its replacement fields.                           *)

TWEET_EMBED_HTML ==
    <<
      [kind |-> "lit", text |-> "<!-- "],
      [kind |-> "slot", text |-> "tweetURL"],
      [kind |-> "lit", text |-> " -->\n<style type='text/css'>."],
      [kind |-> "lit", text |-> "bbpBox"],
      [kind |-> "slot", text |-> "id"],
      [kind |-> "lit", text |-> " {"],
      [kind |-> "slot", text |-> "bbpBoxCss"],
      [kind |-> "lit", text |-> "background:url("],
      [kind |-> "slot", text |-> "profileBackgroundImage"],
      [kind |-> "lit", text |-> ") #"],
      [kind |-> "slot", text |-> "profileBackgroundColor"],
      [kind |-> "lit", text |-> ";padding:20px;} p.bbpTweet{background:#fff;padding:10px 12px 10px 12px;margin:0;min-height:48px;color:#000;font-size:18px !important;line-height:22px;-moz-border-radius:5px;-webkit-border-radius:5px} p.bbpTweet span.metadata{display:block;width:100%;clear:both;margin-top:8px;padding-top:12px;height:40px;border-top:1px solid #fff;border-top:1px solid #e6e6e6} p.bbpTweet span.metadata span.author{line-height:19px} p.bbpTweet span.metadata span.author img{float:left;margin:0 7px 0 0px;width:38px;height:38px} p.bbpTweet span.timestamp{font-size:12px;display:block}</style>\n<div class='"],
      [kind |-> "lit", text |-> "bbpBox"],
      [kind |-> "slot", text |-> "id"],
      [kind |-> "lit", text |-> "'><p class='bbpTweet'>"],
      [kind |-> "slot", text |-> "tweetText"],
      [kind |-> "lit", text |-> "<span class='timestamp'><a title='"],
      [kind |-> "slot", text |-> "timeStamp"],
      [kind |-> "lit", text |-> "' href='"],
      [kind |-> "slot", text |-> "tweetURL"],
      [kind |-> "lit", text |-> "'>"],
      [kind |-> "slot", text |-> "easyTimeStamp"],
      [kind |-> "lit", text |-> "</a> via "],
      [kind |-> "slot", text |-> "source"],
      [kind |-> "lit", text |-> "</span><span class='metadata'><span class='author'><a href='http://twitter.com/"],
      [kind |-> "slot", text |-> "screenName"],
      [kind |-> "lit", text |-> "'><img src='"],
      [kind |-> "slot", text |-> "profilePic"],
      [kind |-> "lit", text |-> "' /></a><strong><a href='http://twitter.com/"],
      [kind |-> "slot", text |-> "screenName"],
      [kind |-> "lit", text |-> "'>"],
      [kind |-> "slot", text |-> "realName"],
      [kind |-> "lit", text |-> "</a></strong><br/>"],
      [kind |-> "slot", text |-> "screenName"],
      [kind |-> "lit", text |-> "</span></span></p></div>\n<!-- end of tweet -->"]
    >>

RECURSIVE FormatFrom(_, _, _)
\* str.format: every literal piece as it stands, every field replaced by
\* the string passed for it.
FormatFrom(template, fields, i) ==
    IF i > Len(template) THEN <<>>
    ELSE (IF template[i].kind = "lit"
          THEN <<template[i].text>>
          ELSE fields[template[i].text]) \o FormatFrom(template, fields, i + 1)

Format(template, fields) == FormatFrom(template, fields, 1)

RECURSIVE JoinWords(_)
\* The timestamp string whose words are ws: ' '.join(ws)
JoinWords(ws) ==
    IF Len(ws) = 0 THEN <<>>
    ELSE IF Len(ws) = 1 THEN ws[1]
    ELSE ws[1] \o <<" ">> \o JoinWords(Tail(ws))

\* The key whose lookup raises KeyError in tweet_json[path[1]] or
\* tweet_json['user'][path[2]], or "" when the lookup succeeds.
MissingKey(json, path) ==
    IF path[1] \notin DOMAIN json THEN path[1]
    ELSE IF Len(path) = 2 /\ path[2] \notin DOMAIN json[path[1]] THEN path[2]
    ELSE ""

\* FormatLookups with only the lookups whose values the template uses.
FormatLookupsUsed ==
    << <<"user", "screen_name">>,
       <<"user", "name">>,
       <<"source">>,
       <<"user", "profile_image_url">>,
       <<"user", "profile_background_color">>,
       <<"user", "profile_background_image_url">>,
       <<"created_at">> >>

\* The lookups in tweet_json that the keyword arguments of
\* TWEET_EMBED_HTML.format make, in the order they are evaluated.
FormatLookups ==
    << <<"user", "screen_name">>,
       <<"user", "name">>,
       <<"source">>,
       <<"user", "profile_image_url">>,
       <<"user", "profile_background_color">>,
       <<"user", "profile_background_image_url">>,
       <<"user", "profile_text_color">>,
       <<"user", "profile_link_color">>,
       <<"created_at">>,
       <<"user", "utc_offset">> >>

\* The key of the first of these lookups that fails, or "".
FirstMissingKey(json, lookups) ==
    IF \A i \in 1..Len(lookups) : MissingKey(json, lookups[i]) = "" THEN ""
    ELSE LET k == CHOOSE i \in 1..Len(lookups) :
                      /\ MissingKey(json, lookups[i]) # ""
                      /\ \A j \in 1..(i - 1) : MissingKey(json, lookups[j]) = ""
         IN  MissingKey(json, lookups[k])

\* FormatFields with screenName=tweet_json['user']['name']: the two names
\* of the author mixed up.
FormatFieldsNamesMixed(id, url, json, text, easy, css) ==
    [f \in {"id", "tweetURL", "screenName", "realName", "tweetText", "source",
            "profilePic", "profileBackgroundColor", "profileBackgroundImage",
            "timeStamp", "easyTimeStamp", "bbpBoxCss"} |->
        CASE f = "id" -> id
          [] f = "tweetURL" -> url
          [] f = "screenName" -> json["user"]["name"]
          [] f = "realName" -> json["user"]["screen_name"]
          [] f = "tweetText" -> text
          [] f = "source" -> json["source"]
          [] f = "profilePic" -> json["user"]["profile_image_url"]
          [] f = "profileBackgroundColor" -> json["user"]["profile_background_color"]
          [] f = "profileBackgroundImage" -> json["user"]["profile_background_image_url"]
          [] f = "timeStamp" -> JoinWords(json["created_at"])
          [] f = "easyTimeStamp" -> easy
          [] f = "bbpBoxCss" -> css]

\* The keyword arguments of TWEET_EMBED_HTML.format that the template uses.
FormatFields(id, url, json, text, easy, css) ==
    [f \in {"id", "tweetURL", "screenName", "realName", "tweetText", "source",
            "profilePic", "profileBackgroundColor", "profileBackgroundImage",
            "timeStamp", "easyTimeStamp", "bbpBoxCss"} |->
        CASE f = "id" -> id
          [] f = "tweetURL" -> url
          [] f = "screenName" -> json["user"]["screen_name"]
          [] f = "realName" -> json["user"]["name"]
          [] f = "tweetText" -> text
          [] f = "source" -> json["source"]
          [] f = "profilePic" -> json["user"]["profile_image_url"]
          [] f = "profileBackgroundColor" -> json["user"]["profile_background_color"]
          [] f = "profileBackgroundImage" -> json["user"]["profile_background_image_url"]
          [] f = "timeStamp" -> JoinWords(json["created_at"])
          [] f = "easyTimeStamp" -> easy
          [] f = "bbpBoxCss" -> css]

---------------------------------------------------------------------------
(* The inputs the specifications draw from.                                *)

\* Longest user segment of a generated URL.
MaxUserLen == 2

\* Longest id segment of a generated URL.
MaxIdLen == 2

\* Most pieces a generated body text is made of.
MaxTextParts == 3

\* Most keys a generated API record lacks.
MaxMissing == 2

\* Largest hour of a generated UTC offset.
MaxOffsetHours == 2

SeqsUpTo(alphabet, n) == UNION {[1..k -> alphabet] : k \in 0..n}

RECURSIVE Flatten(_)
Flatten(ss) == IF Len(ss) = 0 THEN <<>> ELSE ss[1] \o Flatten(Tail(ss))

\* The tweet URLs of TestTweetIdFromTweetUrl (lines 196-212).
TestUrls ==
    {<<"h", "t", "t", "p", ":", "/", "/", "t", "w", "i", "t", "t", "e", "r", ".", "c", "o", "m", "/", "f", "o", "o", "/", "s", "t", "a", "t", "u", "s", "/", "1", "2", "3", "4", "5", "6", "7", "8", "9", "0">>,
     <<"h", "t", "t", "p", ":", "/", "/", "t", "w", "i", "t", "t", "e", "r", ".", "c", "o", "m", "/", "b", "a", "r", "9", "9", "/", "s", "t", "a", "t", "u", "s", "e", "s", "/", "5", "5", "5", "5", "5", "5">>,
     <<"n", "o", "t", " ", "a", " ", "u", "r", "l">>,
     <<"h", "t", "t", "p", ":", "/", "/", "t", "w", "i", "t", "t", "e", "r", ".", "c", "o", "m", "/", "s", "t", "a", "t", "u", "s", "/", "2", "3", "4", "5", "6", "7", "8">>,
     <<"h", "t", "t", "p", ":", "/", "/", "t", "w", "i", "t", "t", "e", "r", ".", "c", "o", "m", "/", "f", "o", "o", "/", "s", "t", "a", "t", "u", "s", "/">>,
     <<"h", "t", "t", "p", ":", "/", "/", "t", "w", "i", "t", "t", "e", "r", ".", "c", "o", "m", "/", "f", "o", "o", "/", "s", "t", "a", "t", "u", "s", "/", " ">>}

UrlSchemes == {<<"h", "t", "t", "p", ":", "/", "/">>,
     <<"h", "t", "t", "p", "s", ":", "/", "/">>,
     <<" ", "h", "t", "t", "p", ":", "/", "/">>}

UrlHosts == {<<"t", "w", "i", "t", "t", "e", "r", ".", "c", "o", "m">>,
     <<"f", "o", "o", ".", "b", "a", "r">>,
     <<"t", "w", "i", "t", "t", "e", "r", "X", "c", "o", "m">>,
     <<"a", "p", "i", ".", "t", "w", "i", "t", "t", "e", "r", ".", "c", "o", "m">>}

UrlStatusWords == {<<"s", "t", "a", "t", "u", "s">>,
     <<"s", "t", "a", "t", "u", "s", "e", "s">>,
     <<"s", "t", "a", "t", "u", "s", "e">>,
     <<"s", "t", "a", "t">>}

UrlSuffixes == {<<>>, <<" ">>, <<"\t">>, <<"\n">>, <<"\n", "\n">>, <<"/">>}

\* URLs <scheme><host>/<user>/<status word>/<id><suffix>, well-formed and not.
UrlInputs ==
    TestUrls \cup
    {sch \o h \o <<"/">> \o u \o <<"/">> \o st \o <<"/">> \o id \o suf :
        sch \in UrlSchemes, h \in UrlHosts, u \in SeqsUpTo({"f", "9", "-"}, MaxUserLen),
        st \in UrlStatusWords, id \in SeqsUpTo({"1", "a"}, MaxIdLen), suf \in UrlSuffixes}

TextPieces == {<<"@", "u">>, <<"#", "t">>, <<"h", "t", "t", "p", ":", "/", "/", "h">>, <<" ">>, <<"\n">>, <<"a">>, <<"/">>, <<"!">>}

\* Body texts: up to MaxTextParts pieces, one after the other.
TextInputs ==
    {Flatten(ps) : ps \in UNION {[1..k -> TextPieces] : k \in 0..MaxTextParts}}

\* The timestamp strings of TestTimestampStringToDatetime (lines 176-178).
TestTimestamps ==
    {<<<<"W", "e", "d">>, <<"J", "u", "n">>, <<"0", "9">>, <<"1", "8", ":", "3", "1", ":", "5", "5">>, <<"+", "0", "0", "0", "0">>, <<"2", "0", "1", "0">>>>,
     <<<<"M", "o", "n">>, <<"J", "a", "n">>, <<"1", "1">>, <<"5", ":", "0", "1", ":", "0", "0">>, <<"+", "0", "2", "0", "0">>, <<"1", "9", "9", "8">>>>,
     <<<<"T", "u", "e">>, <<"N", "o", "v">>, <<"2", "3">>, <<"2", "3", ":", "0", "1", ":", "0", "0">>, <<"-", "0", "5", "0", "0">>, <<"2", "0", "0", "4">>>>}

SampleDates ==
    {<<1998, 1, 11>>, <<1999, 12, 31>>, <<2000, 1, 1>>, <<2000, 2, 28>>, <<2000, 2, 29>>,
     <<2000, 3, 1>>, <<2001, 2, 28>>, <<2001, 3, 1>>, <<2004, 10, 20>>, <<2004, 11, 23>>,
     <<2010, 6, 9>>, <<2010, 6, 10>>, <<2010, 6, 30>>, <<2100, 2, 28>>, <<2100, 3, 1>>}

SampleHours == {0, 1, 5, 9, 10, 11, 12, 13, 18, 22, 23}

SampleMinutes == {0, 1, 59}

SampleSeconds == {0, 55}

\* UTC offsets as written: a sign, two digits of hours, two of minutes; the
\* small ones, and the largest in use.
OffsetWords ==
    {<<sign>> \o Pad2(h) \o Pad2(m) :
        sign \in {"+", "-"}, h \in 0..MaxOffsetHours, m \in {0, 30}}
    \cup {<<"+", "1", "4", "0", "0">>,
          <<"-", "1", "2", "0", "0">>,
          <<"+", "0", "5", "4", "5">>}

\* The words of '<weekday> <month> <day> <HH:MM:SS> <offset> <year>' for a
\* date and a time of day, as the API writes them.
TimestampWords(date, hh, mm, ss, offset) ==
    <<DayNames[Weekday([year |-> date[1], month |-> date[2], day |-> date[3]]) + 1],
      MonthNames[date[2]],
      Pad2(date[3]),
      Pad2(hh) \o <<":">> \o Pad2(mm) \o <<":">> \o Pad2(ss),
      offset,
      Pad4(date[1])>>

TimestampInputs ==
    TestTimestamps \cup
    {TimestampWords(d, hh, mm, ss, off) :
        d \in SampleDates, hh \in SampleHours, mm \in SampleMinutes,
        ss \in SampleSeconds, off \in OffsetWords}

\* api_data that json.loads rejects.
NoData == [valid |-> FALSE, obj |-> <<>>]

\* extra_css=None
NoneCss == [none |-> TRUE, dict |-> <<>>]

TopKeys == {"text", "created_at", "source", "user", "id"}

UserKeys ==
    {"screen_name", "name", "profile_image_url", "profile_background_color",
     "profile_background_image_url", "profile_text_color", "profile_link_color",
     "utc_offset", "id"}

ScreenName == <<"b", "o", "b">>

UserValue(key) ==
    CASE key = "screen_name" -> ScreenName
      [] key = "name" -> <<"B", "o", "b">>
      [] key = "profile_image_url" -> <<"p", ".", "p", "n", "g">>
      [] key = "profile_background_color" -> <<"C", "0", "D", "E", "E", "D">>
      [] key = "profile_background_image_url" -> <<"b", ".", "p", "n", "g">>
      [] key = "profile_text_color" -> <<"3", "3", "3">>
      [] key = "profile_link_color" -> <<"0", "0", "8", "4", "B", "4">>
      [] key = "utc_offset" -> <<"0">>
      [] key = "id" -> <<"7">>

\* The object the API returns for a tweet with body text `text` created at
\* `created_at`, without the keys `missing` ("user" takes the whole user
\* object away).
ApiRecord(text, created_at, missing) ==
    [k \in TopKeys \ missing |->
        CASE k = "text" -> text
          [] k = "created_at" -> created_at
          [] k = "source" -> <<"w", "e", "b">>
          [] k = "id" -> <<"1", "2">>
          [] k = "user" -> [u \in UserKeys \ missing |-> UserValue(u)]]

MissingSets ==
    {ks \in SUBSET ((TopKeys \cup UserKeys) \ {"id"}) : Cardinality(ks) <= MaxMissing}

RunUrls == {<<"h", "t", "t", "p", ":", "/", "/", "t", "w", "i", "t", "t", "e", "r", ".", "c", "o", "m", "/", "b", "o", "b", "/", "s", "t", "a", "t", "u", "s", "/", "1", "2">>,
     <<"h", "t", "t", "p", ":", "/", "/", "t", "w", "i", "t", "t", "e", "r", ".", "c", "o", "m", "/", "b", "o", "b", "/", "s", "t", "a", "t", "u", "s", "e", "s", "/", "1", "2", "\n">>,
     <<"h", "t", "t", "p", ":", "/", "/", "t", "w", "i", "t", "t", "e", "r", ".", "c", "o", "m", "/", "b", "o", "b", "/", "s", "t", "a", "t", "u", "s", "/">>,
     <<"h", "t", "t", "p", ":", "/", "/", "f", "o", "o", ".", "b", "a", "r", "/", "b", "o", "b", "/", "s", "t", "a", "t", "u", "s", "/", "1", "2">>,
     <<"h", "t", "t", "p", ":", "/", "/", "t", "w", "i", "t", "t", "e", "r", ".", "c", "o", "m", "/", "a", "m", "y", "/", "s", "t", "a", "t", "u", "s", "e", "s", "/", "1", "2">>}

RunTexts == {<<"h", "i", " ", "@", "b", "o", "b", "\n", "#", "t">>,
     <<"s", "e", "e", " ", "h", "t", "t", "p", ":", "/", "/", "h", "/", "#", "t">>}

RunTimestamps == {<<<<"W", "e", "d">>, <<"J", "u", "n">>, <<"0", "9">>, <<"1", "8", ":", "3", "1", ":", "5", "5">>, <<"+", "0", "0", "0", "0">>, <<"2", "0", "1", "0">>>>,
     <<<<"n", "o", "t">>, <<"a">>, <<"d", "a", "t", "e">>>>}

\* What api_handle.read() can return: a body that is not JSON, or the JSON of
\* an API record.
ApiResponses ==
    {NoData} \cup
    {[valid |-> TRUE, obj |-> ApiRecord(text, ts, missing)] :
        text \in RunTexts, ts \in RunTimestamps, missing \in MissingSets}

ExtraCssInputs ==
    {NoneCss, [none |-> FALSE, dict |-> ("bbpBox" :> <<"m", "a", "r", "g", "i", "n", ":", "0", ";">>)]}

---------------------------------------------------------------------------
(* embed_tweet_html: one action for each step of the function.  pc names   *)
(* the source line the call is about to execute; "raised" and "returned"   *)
(* are the two ways the call ends.                                         *)

Raised(kind, arg, line) == [kind |-> kind, arg |-> arg, line |-> line]

\* The offsets of local time from UTC, in seconds, that
\* datetime.now() - datetime.utcnow() is drawn from.
LocalOffsets == {0 - 18000, 3600}

\* datetime.now() is read before datetime.utcnow(): their difference falls
\* short of the offset by the time between the two reads, which at the
\* resolution of one second shows as 0 or 1.
ClockSkews == {0, 1}

\* line 92: tweet_id = tweet_id_from_tweet_url(tweet_url)
ExtractTweetId ==
    /\ pc = "L92"
    /\ LET r == tweet_id_from_tweet_url(tweet_url)
       IN  IF r.error.kind = "none"
           THEN /\ tweet_id' = r.value
                /\ pc' = "L94"
                /\ UNCHANGED error
           ELSE /\ error' = Raised(r.error.kind, r.error.arg, 92)
                /\ pc' = "raised"
                /\ UNCHANGED tweet_id
    /\ UNCHANGED <<tweet_url, extra_css, api_handle, urlopen_calls, api_data,
                   tweet_json, tweet_text, passes, tweet_created_datetime,
                   tweet_local_datetime, tweet_easy_timestamp, html>>

\* UrlOpen inside a retry loop: a failed urlopen is tried again, up to three
\* times in all.
UrlOpenRetry ==
    /\ pc = "L94"
    /\ urlopen_calls' = urlopen_calls + 1
    /\ \E ok \in BOOLEAN :
          IF ok
          THEN /\ api_handle' = "open"
               /\ pc' = "L95"
               /\ UNCHANGED error
          ELSE IF urlopen_calls < 2
          THEN UNCHANGED <<pc, error, api_handle>>
          ELSE /\ error' = Raised("URLError", <<>>, 94)
               /\ pc' = "raised"
               /\ UNCHANGED api_handle
    /\ UNCHANGED <<tweet_url, extra_css, tweet_id, api_data, tweet_json,
                   tweet_text, passes, tweet_created_datetime,
                   tweet_local_datetime, tweet_easy_timestamp, html>>

\* lines 93-94: api_handle = urllib2.urlopen(api_url); the call either
\* returns an open handle or raises.
UrlOpen ==
    /\ pc = "L94"
    /\ urlopen_calls' = urlopen_calls + 1
    /\ \E ok \in BOOLEAN :
          IF ok
          THEN /\ api_handle' = "open"
               /\ pc' = "L95"
               /\ UNCHANGED error
          ELSE /\ error' = Raised("URLError", <<>>, 94)
               /\ pc' = "raised"
               /\ UNCHANGED api_handle
    /\ UNCHANGED <<tweet_url, extra_css, tweet_id, api_data, tweet_json,
                   tweet_text, passes, tweet_created_datetime,
                   tweet_local_datetime, tweet_easy_timestamp, html>>

\* line 95: api_data = api_handle.read(); the call either returns the
\* response body or raises.
Read ==
    /\ pc = "L95"
    /\ \E ok \in BOOLEAN :
          IF ok
          THEN /\ \E data \in ApiResponses : api_data' = data
               /\ pc' = "L96"
               /\ UNCHANGED error
          ELSE /\ error' = Raised("IOError", <<>>, 95)
               /\ pc' = "raised"
               /\ UNCHANGED api_data
    /\ UNCHANGED <<tweet_url, extra_css, tweet_id, api_handle, urlopen_calls,
                   tweet_json, tweet_text, passes, tweet_created_datetime,
                   tweet_local_datetime, tweet_easy_timestamp, html>>

\* line 96: api_handle.close()
Close ==
    /\ pc = "L96"
    /\ api_handle' = "closed"
    /\ pc' = "L97"
    /\ UNCHANGED <<tweet_url, extra_css, tweet_id, error, urlopen_calls, api_data,
                   tweet_json, tweet_text, passes, tweet_created_datetime,
                   tweet_local_datetime, tweet_easy_timestamp, html>>

\* line 97: tweet_json = json.loads(api_data)
JsonLoads ==
    /\ pc = "L97"
    /\ IF api_data.valid
       THEN /\ tweet_json' = api_data.obj
            /\ pc' = "L102"
            /\ UNCHANGED error
       ELSE /\ error' = Raised("ValueError", <<>>, 97)
            /\ pc' = "raised"
            /\ UNCHANGED tweet_json
    /\ UNCHANGED <<tweet_url, extra_css, tweet_id, api_handle, urlopen_calls,
                   api_data, tweet_text, passes, tweet_created_datetime,
                   tweet_local_datetime, tweet_easy_timestamp, html>>

\* line 102: tweet_json['text'].replace('\n', ' '), the innermost argument
CollapseNewlines ==
    /\ pc = "L102"
    /\ IF MissingKey(tweet_json, <<"text">>) = ""
       THEN /\ tweet_text' = ReplaceNewlines(tweet_json["text"])
            /\ passes' = Append(passes, "newlines")
            /\ pc' = "L101"
            /\ UNCHANGED error
       ELSE /\ error' = Raised("KeyError", <<"text">>, 102)
            /\ pc' = "raised"
            /\ UNCHANGED <<tweet_text, passes>>
    /\ UNCHANGED <<tweet_url, extra_css, tweet_id, api_handle, urlopen_calls,
                   api_data, tweet_json, tweet_created_datetime,
                   tweet_local_datetime, tweet_easy_timestamp, html>>

\* One linkify pass of lines 99-105: at line `at` the body text becomes
\* `result`, and the call goes on at `next`.
LinkifyStep(at, name, result, next) ==
    /\ pc = at
    /\ tweet_text' = result
    /\ passes' = Append(passes, name)
    /\ pc' = next
    /\ UNCHANGED <<tweet_url, extra_css, tweet_id, error, api_handle,
                   urlopen_calls, api_data, tweet_json, tweet_created_datetime,
                   tweet_local_datetime, tweet_easy_timestamp, html>>

\* line 101: wrap_http_with_link(...), applied to the collapsed text
WrapHttp == LinkifyStep("L101", "http", wrap_http_with_link(tweet_text), "L100")

\* line 100: wrap_hashtag_with_link(...), applied to the result of line 101
WrapHashtag == LinkifyStep("L100", "hashtag", wrap_hashtag_with_link(tweet_text), "L99")

\* WrapUserMention as the innermost call: the mention pass applied to the
\* collapsed text, where the raw-URL pass belongs.
WrapUserMentionInnermost ==
    LinkifyStep("L101", "mention", wrap_user_mention_with_link(tweet_text), "L100")

\* line 99: wrap_user_mention_with_link(...), applied to the result of line 100
WrapUserMention ==
    LinkifyStep("L99", "mention", wrap_user_mention_with_link(tweet_text), "L107")

\* line 107: tweet_created_datetime = timestamp_string_to_datetime(tweet_json["created_at"])
ParseCreatedAt ==
    /\ pc = "L107"
    /\ IF MissingKey(tweet_json, <<"created_at">>) # ""
       THEN /\ error' = Raised("KeyError", <<"created_at">>, 107)
            /\ pc' = "raised"
            /\ UNCHANGED tweet_created_datetime
       ELSE LET r == timestamp_string_to_datetime(tweet_json["created_at"])
            IN  IF r.error.kind = "none"
                THEN /\ tweet_created_datetime' = r.value
                     /\ pc' = "L108"
                     /\ UNCHANGED error
                ELSE /\ error' = Raised(r.error.kind, r.error.arg, 107)
                     /\ pc' = "raised"
                     /\ UNCHANGED tweet_created_datetime
    /\ UNCHANGED <<tweet_url, extra_css, tweet_id, api_handle, urlopen_calls,
                   api_data, tweet_json, tweet_text, passes,
                   tweet_local_datetime, tweet_easy_timestamp, html>>

\* line 108: tweet_local_datetime = tweet_created_datetime
\*                                  + (datetime.now() - datetime.utcnow())
LocalTime ==
    /\ pc = "L108"
    /\ \E offset \in LocalOffsets, skew \in ClockSkews :
          tweet_local_datetime' = DatetimePlusSeconds(tweet_created_datetime, offset - skew)
    /\ pc' = "L109"
    /\ UNCHANGED <<tweet_url, extra_css, tweet_id, error, api_handle,
                   urlopen_calls, api_data, tweet_json, tweet_text, passes,
                   tweet_created_datetime, tweet_easy_timestamp, html>>

\* line 109: tweet_easy_timestamp = easy_to_read_timestamp_string(tweet_local_datetime)
EasyTimestamp ==
    /\ pc = "L109"
    /\ IF tweet_local_datetime.year >= StrftimeMinYear
       THEN /\ tweet_easy_timestamp' = easy_to_read_timestamp_string(tweet_local_datetime)
            /\ pc' = "L111"
            /\ UNCHANGED error
       ELSE /\ error' = Raised("ValueError", <<>>, 109)
            /\ pc' = "raised"
            /\ UNCHANGED tweet_easy_timestamp
    /\ UNCHANGED <<tweet_url, extra_css, tweet_id, api_handle, urlopen_calls,
                   api_data, tweet_json, tweet_text, passes,
                   tweet_created_datetime, tweet_local_datetime, html>>

\* lines 111-112: if extra_css is None: extra_css = {}
DefaultExtraCss ==
    /\ pc = "L111"
    /\ extra_css' = IF extra_css.none THEN [none |-> FALSE, dict |-> <<>>] ELSE extra_css
    /\ pc' = "L114"
    /\ UNCHANGED <<tweet_url, tweet_id, error, api_handle, urlopen_calls, api_data,
                   tweet_json, tweet_text, passes, tweet_created_datetime,
                   tweet_local_datetime, tweet_easy_timestamp, html>>

\* extra_css.get('bbpBox', '')
BbpBoxCss(css) == IF "bbpBox" \in DOMAIN css.dict THEN css.dict["bbpBox"] ELSE <<>>

\* lines 114-131: html = TWEET_EMBED_HTML.format(...); return html
Render ==
    /\ pc = "L114"
    /\ LET missing == FirstMissingKey(tweet_json, FormatLookups)
       IN  IF missing = ""
           THEN /\ html' = Format(TWEET_EMBED_HTML,
                                  FormatFields(tweet_id, tweet_url, tweet_json, tweet_text,
                                               tweet_easy_timestamp, BbpBoxCss(extra_css)))
                /\ pc' = "returned"
                /\ UNCHANGED error
           ELSE /\ error' = Raised("KeyError", <<missing>>, 114)
                /\ pc' = "raised"
                /\ UNCHANGED html
    /\ UNCHANGED <<tweet_url, extra_css, tweet_id, api_handle, urlopen_calls,
                   api_data, tweet_json, tweet_text, passes, tweet_created_datetime,
                   tweet_local_datetime, tweet_easy_timestamp>>

---------------------------------------------------------------------------
(* Specifications                                                          *)

NotRaised == Raised("none", <<>>, 0)

\* The locals of a call that has not assigned them yet.
Unassigned ==
    /\ tweet_text = <<>>
    /\ passes = <<>>
    /\ tweet_created_datetime = NoDatetime
    /\ tweet_local_datetime = NoDatetime
    /\ tweet_easy_timestamp = <<>>
    /\ html = <<>>

\* A call of embed_tweet_html(tweet_url, extra_css).
Init ==
    /\ pc = "L92"
    /\ tweet_url \in RunUrls
    /\ extra_css \in ExtraCssInputs
    /\ tweet_id = <<>>
    /\ error = NotRaised
    /\ api_handle = "none"
    /\ urlopen_calls = 0
    /\ api_data = NoData
    /\ tweet_json = <<>>
    /\ Unassigned

Next ==
    \/ ExtractTweetId
    \/ UrlOpen
    \/ Read
    \/ Close
    \/ JsonLoads
    \/ CollapseNewlines
    \/ WrapHttp
    \/ WrapHashtag
    \/ WrapUserMention
    \/ ParseCreatedAt
    \/ LocalTime
    \/ EasyTimestamp
    \/ DefaultExtraCss
    \/ Render

Spec == Init /\ [][Next]_vars

\* tweet_id_from_tweet_url on every generated URL.
InitUrl ==
    /\ pc = "L92"
    /\ tweet_url \in UrlInputs
    /\ extra_css = NoneCss
    /\ tweet_id = <<>>
    /\ error = NotRaised
    /\ api_handle = "none"
    /\ urlopen_calls = 0
    /\ api_data = NoData
    /\ tweet_json = <<>>
    /\ Unassigned

NextUrl == ExtractTweetId

SpecUrl == InitUrl /\ [][NextUrl]_vars

FetchedUrl == <<"h", "t", "t", "p", ":", "/", "/", "t", "w", "i", "t", "t", "e", "r", ".", "c", "o", "m", "/", "b", "o", "b", "/", "s", "t", "a", "t", "u", "s", "/", "1", "2">>

\* The call after line 97, the fetch done: tweet_json is the record `obj`.
Fetched(obj) ==
    /\ tweet_url = FetchedUrl
    /\ extra_css = NoneCss
    /\ tweet_id = tweet_id_from_tweet_url(FetchedUrl).value
    /\ error = NotRaised
    /\ api_handle = "closed"
    /\ urlopen_calls = 1
    /\ api_data = [valid |-> TRUE, obj |-> obj]
    /\ tweet_json = obj

\* Lines 99-105 on every generated body text.
InitLinkify ==
    /\ pc = "L102"
    /\ \E text \in TextInputs :
          Fetched(ApiRecord(text, CHOOSE ts \in TestTimestamps : TRUE, {}))
    /\ Unassigned

NextLinkify ==
    \/ CollapseNewlines
    \/ WrapHttp
    \/ WrapHashtag
    \/ WrapUserMention

SpecLinkify == InitLinkify /\ [][NextLinkify]_vars

\* Lines 107-109 on every generated timestamp string.
InitTime ==
    /\ pc = "L107"
    /\ \E ts \in TimestampInputs : Fetched(ApiRecord(<<"h", "i">>, ts, {}))
    /\ tweet_text = <<"h", "i">>
    /\ passes = <<"newlines", "http", "hashtag", "mention">>
    /\ tweet_created_datetime = NoDatetime
    /\ tweet_local_datetime = NoDatetime
    /\ tweet_easy_timestamp = <<>>
    /\ html = <<>>

NextTime ==
    \/ ParseCreatedAt
    \/ LocalTime
    \/ EasyTimestamp

SpecTime == InitTime /\ [][NextTime]_vars

---------------------------------------------------------------------------
(* Properties of tweet_id_from_tweet_url, checked under SpecUrl.           *)

IsWordToken(w) == Len(w) > 0 /\ \A i \in 1..Len(w) : w[i] \in WordChars

\* s reads http://<host>/<word>/status/<digits> or .../statuses/<digits>,
\* and nothing else, for a host that `hostOk` accepts: told by cutting s at
\* its slashes.
IsPostUrl(s, hostOk(_)) ==
    LET parts == SplitOn(s, "/")
    IN  /\ Len(parts) = 6
        /\ parts[1] = <<"h", "t", "t", "p", ":">>
        /\ parts[2] = <<>>
        /\ hostOk(parts[3])
        /\ IsWordToken(parts[4])
        /\ parts[5] \in {<<"s", "t", "a", "t", "u", "s">>, <<"s", "t", "a", "t", "u", "s", "e", "s">>}
        /\ AllDigits(parts[6])

\* <word>.<word>
IsTwoWordHost(h) ==
    LET ws == SplitOn(h, ".")
    IN  Len(ws) = 2 /\ IsWordToken(ws[1]) /\ IsWordToken(ws[2])

IsTwitterHost(h) == h = <<"t", "w", "i", "t", "t", "e", "r", ".", "c", "o", "m">>

\* The digit group that ends a post URL.
TrailingDigits(s) == SplitOn(s, "/")[6]

\* C1 as the spec states it: extraction succeeds on every URL
\* http://<word>.<word>/<word>/status(es)?/<digits>, whatever the host, and
\* returns the trailing digit group.
C1_AnyHost ==
    (pc # "L92" /\ IsPostUrl(tweet_url, IsTwoWordHost))
        => (pc = "L94" /\ tweet_id = TrailingDigits(tweet_url))

\* C1, amended: extraction succeeds on every URL
\* http://twitter.com/<word>/status(es)?/<digits> and returns the trailing
\* digit group; whenever extraction succeeds the id is a non-empty run of
\* digits.
C1_TwitterHost ==
    /\ (pc # "L92" /\ IsPostUrl(tweet_url, IsTwitterHost))
           => (pc = "L94" /\ tweet_id = TrailingDigits(tweet_url))
    /\ pc = "L94" => AllDigits(tweet_id)

\* C1, witness: a .../statuses/<digits> URL of twitter.com has been extracted.
C1_Witness ==
    /\ pc = "L94"
    /\ IsPostUrl(tweet_url, IsTwitterHost)
    /\ SplitOn(tweet_url, "/")[5] = <<"s", "t", "a", "t", "u", "s", "e", "s">>
    /\ Len(tweet_id) = MaxIdLen

\* C2: every input that is not a full match of the post-URL pattern, an
\* input with whitespace after the digits among them, yields no id and
\* raises the invalid-URL error whose message carries the input.
C2_NoPartialMatch ==
    (pc # "L92" /\ ~IsPostUrl(tweet_url, IsTwoWordHost))
        => /\ pc = "raised"
           /\ tweet_id = <<>>
           /\ error.kind = "ValueError"
           /\ error.arg = InvalidTweetUrlPrefix \o tweet_url

---------------------------------------------------------------------------
(* Properties of the linkification of lines 99-105, checked under          *)
(* SpecLinkify.                                                            *)

IsPrefix(s, full) == Len(s) <= Len(full) /\ s = SubSeq(full, 1, Len(s))

\* The positions of s where the sequence `needle` occurs.
Occurs(s, needle) ==
    {i \in 1..(Len(s) - Len(needle) + 1) : SubSeq(s, i, i + Len(needle) - 1) = needle}

\* C3 as the spec states it: the newlines are collapsed, then the mention
\* pass runs, then the tag pass, then the raw-URL pass.
C3_MentionsFirst ==
    /\ IsPrefix(passes, <<"newlines", "mention", "hashtag", "http">>)
    /\ pc = "L107" =>
           tweet_text = wrap_http_with_link(wrap_hashtag_with_link(
                            wrap_user_mention_with_link(ReplaceNewlines(tweet_json["text"]))))

\* C3, amended: the newlines are collapsed, then the raw-URL pass runs, then
\* the tag pass, then the mention pass; no newline is left once the first
\* step has run.
C3_UrlsFirst ==
    /\ IsPrefix(passes, <<"newlines", "http", "hashtag", "mention">>)
    /\ pc # "L102" => Occurs(tweet_text, <<"\n">>) = {}
    /\ pc = "L107" =>
           /\ Len(passes) = 4
           /\ tweet_text = wrap_user_mention_with_link(wrap_hashtag_with_link(
                               wrap_http_with_link(ReplaceNewlines(tweet_json["text"]))))

\* C3, witness: all four steps have run on a text with a newline, and the
\* result differs from that of the order mentions, tags, URLs.
C3_Witness ==
    /\ pc = "L107"
    /\ Occurs(tweet_json["text"], <<"\n">>) # {}
    /\ tweet_text # wrap_http_with_link(wrap_hashtag_with_link(
                        wrap_user_mention_with_link(ReplaceNewlines(tweet_json["text"]))))

\* No anchor inside another: after every <a href=" comes a </a> with no
\* other <a href=" before it.
NoDoubleWrap(s) ==
    LET opens  == Occurs(s, AHref)
        closes == Occurs(s, CloseA)
    IN  \A i \in opens : \E c \in closes :
            c > i /\ \A j \in opens : ~(i < j /\ j < c)

\* C4: the composed linkification never double-wraps: no anchor lies inside
\* the href or the link text of another, so an '@name' or '#tag' inside an
\* http:// URL gets no anchor of its own.
C4_NoDoubleWrap == pc = "L107" => NoDoubleWrap(tweet_text)

---------------------------------------------------------------------------
(* Properties of embed_tweet_html as a whole, checked under Spec.          *)

\* C5: the fetch is attempted at most once and never retried, not at all
\* when the id extraction fails; a failure of any step ends the call with
\* the error raised and no HTML returned.
C5_SingleFetch ==
    /\ urlopen_calls <= 1
    /\ (error.line = 92 \/ tweet_id = <<>>) => (urlopen_calls = 0 /\ api_handle = "none")
    /\ error.kind # "none" <=> pc = "raised"
    /\ pc = "raised" => (html = <<>> /\ ~ENABLED Next)

\* C5, witness: the one fetch of a call failed and the call ended there.
C5_Witness ==
    /\ pc = "raised"
    /\ error.kind = "URLError"
    /\ urlopen_calls = 1

Count(s, needle) == Cardinality(Occurs(s, needle))

\* C6 as the spec states it: the returned HTML contains the class name
\* bbpBox<ID>, the linkified body text and the author's screen name exactly
\* once each.
C6_ExactlyOnce ==
    pc = "returned" =>
        /\ Count(html, <<"bbpBox">> \o tweet_id) = 1
        /\ Count(html, tweet_text) = 1
        /\ Count(html, tweet_json["user"]["screen_name"]) = 1

\* C6, amended: the returned HTML contains the linkified body text at least
\* once, the class name bbpBox<ID> at least twice (the style rule and the
\* div) and the author's screen name at least three times (two profile links
\* and the author line).
C6_AtLeast ==
    pc = "returned" =>
        /\ Count(html, <<"bbpBox">> \o tweet_id) >= 2
        /\ Count(html, tweet_text) >= 1
        /\ Count(html, tweet_json["user"]["screen_name"]) >= 3

\* C6, witness: a render whose HTML holds the class name twice, the body
\* once and the screen name three times.
C6_Witness ==
    /\ pc = "returned"
    /\ Count(html, <<"bbpBox">> \o tweet_id) = 2
    /\ Count(html, tweet_text) = 1
    /\ Count(html, tweet_json["user"]["screen_name"]) = 3

\* The fields the spec lists for a PostRecord.
PostRecordFields ==
    {<<"text">>, <<"user", "screen_name">>, <<"user", "name">>,
     <<"user", "profile_image_url">>, <<"user", "profile_background_color">>,
     <<"user", "profile_background_image_url">>, <<"source">>, <<"created_at">>,
     <<"user", "utc_offset">>}

\* The two fields embed_tweet_html reads beyond them.
ColorFields == {<<"user", "profile_text_color">>, <<"user", "profile_link_color">>}

HasAll(json, paths) == \A path \in paths : MissingKey(json, path) = ""

\* C7 as the spec states it: a record with every PostRecord field never
\* fails for a missing field; the missing-field error is raised only when a
\* PostRecord field is missing.
C7_ListedSuffice ==
    (pc = "raised" /\ error.kind = "KeyError") => ~HasAll(tweet_json, PostRecordFields)

\* C7, amended: the missing-field error is raised only when a PostRecord
\* field, the profile text colour or the profile link colour is missing, and
\* it names a missing key; a render returns only for a record that has all
\* of these fields.
C7_ListedAndColors ==
    /\ (pc = "raised" /\ error.kind = "KeyError") =>
           /\ ~HasAll(tweet_json, PostRecordFields \cup ColorFields)
           /\ \E path \in PostRecordFields \cup ColorFields :
                  /\ MissingKey(tweet_json, path) # ""
                  /\ error.arg = <<MissingKey(tweet_json, path)>>
    /\ pc = "returned" => HasAll(tweet_json, PostRecordFields \cup ColorFields)

\* C7, witness: a record with every PostRecord field failed for a missing
\* colour field.
C7_Witness ==
    /\ pc = "raised"
    /\ error.kind = "KeyError"
    /\ HasAll(tweet_json, PostRecordFields)

\* C10: once the API handle is open it is closed before the call returns or
\* raises, on every path.
C10_HandleClosed ==
    (pc \in {"returned", "raised"} /\ api_handle # "none") => api_handle = "closed"

---------------------------------------------------------------------------
(* Properties of the timestamp functions, checked under SpecTime.          *)

\* The day before and the day after a date <<year, month, day>>, by the
\* calendar.
DayBefore(date) ==
    IF date[3] > 1 THEN <<date[1], date[2], date[3] - 1>>
    ELSE IF date[2] > 1 THEN <<date[1], date[2] - 1, DaysInMonth(date[1], date[2] - 1)>>
    ELSE <<date[1] - 1, 12, 31>>

DayAfter(date) ==
    IF date[3] < DaysInMonth(date[1], date[2]) THEN <<date[1], date[2], date[3] + 1>>
    ELSE IF date[2] < 12 THEN <<date[1], date[2] + 1, 1>>
    ELSE <<date[1] + 1, 1, 1>>

\* The civil date-time `seconds` (less than a day, either way) after dt,
\* the date rolling over by the calendar.
CivilPlus(dt, seconds) ==
    LET t    == dt.hour * 3600 + dt.minute * 60 + dt.second + seconds
        date == <<dt.year, dt.month, dt.day>>
        d    == IF t < 0 THEN DayBefore(date)
                ELSE IF t >= 86400 THEN DayAfter(date) ELSE date
        s    == IF t < 0 THEN t + 86400 ELSE IF t >= 86400 THEN t - 86400 ELSE t
    IN  [year |-> d[1], month |-> d[2], day |-> d[3],
         hour |-> s \div 3600, minute |-> (s % 3600) \div 60, second |-> s % 60]

\* The civil date-time a timestamp string writes, read word by word:
\* <weekday> <month> <day> <HH:MM:SS> <offset> <year>.
WrittenCivil(ws) ==
    LET hms == SplitOn(ws[4], ":")
    IN  [year |-> DecimalValue(ws[6]), month |-> IndexOf(ws[2], MonthNames),
         day |-> DecimalValue(ws[3]), hour |-> DecimalValue(hms[1]),
         minute |-> DecimalValue(hms[2]), second |-> DecimalValue(hms[3])]

\* The seconds east of UTC that an offset word <sign>HHMM declares.
DeclaredOffset(w) ==
    LET secs == DecimalValue(SubSeq(w, 2, 3)) * 3600 + DecimalValue(SubSeq(w, 4, 5)) * 60
    IN  IF w[1] = "-" THEN 0 - secs ELSE secs

\* The timestamp string that writes the instant `utc` under the offset word w.
WrittenUnder(utc, w) ==
    LET c == CivilPlus(utc, DeclaredOffset(w))
    IN  TimestampWords(<<c.year, c.month, c.day>>, c.hour, c.minute, c.second, w)

\* C8: timestamp_string_to_datetime never drops the declared offset: the
\* result is the written civil date-time minus the declared offset, the date
\* rolling over as needed, so the strings that write the same instant under
\* other offsets parse to the same result.
C8_OffsetApplied ==
    /\ pc # "L107" => pc # "raised"
    /\ pc = "L108" =>
           LET ws == tweet_json["created_at"]
           IN  /\ tweet_created_datetime =
                      CivilPlus(WrittenCivil(ws), 0 - DeclaredOffset(ws[5]))
               /\ \A w \in OffsetWords :
                      timestamp_string_to_datetime(WrittenUnder(tweet_created_datetime, w)).value
                          = tweet_created_datetime

\* C8, witness: a timestamp with a positive offset whose result falls on the
\* last day of the month before the written one.
C8_Witness ==
    /\ pc = "L108"
    /\ DeclaredOffset(tweet_json["created_at"][5]) > 0
    /\ WrittenCivil(tweet_json["created_at"]).day = 1
    /\ tweet_created_datetime.day = 29
    /\ tweet_created_datetime.month = 2

\* A number below 100 as it is usually written, without a leading zero.
Decimal(n) == IF n < 10 THEN <<DigitChar[n + 1]>> ELSE Pad2(n)

\* The day of the week of a date by Sakamoto's rule: Sunday is 0.
SakamotoTable == <<0, 3, 2, 5, 0, 3, 5, 1, 4, 6, 2, 4>>

DayOfWeek(y, m, d) ==
    LET yy == IF m < 3 THEN y - 1 ELSE y
    IN  (yy + yy \div 4 - yy \div 100 + yy \div 400 + SakamotoTable[m] + d) % 7

SundayFirst == <<<<"S", "u", "n">>,
      <<"M", "o", "n">>,
      <<"T", "u", "e">>,
      <<"W", "e", "d">>,
      <<"T", "h", "u">>,
      <<"F", "r", "i">>,
      <<"S", "a", "t">>>>

\* 'H:MM AM/PM Weekday Month Day, Year': the hour on a 12-hour clock and the
\* day without a leading zero, the minutes in two digits.
EasyToRead(dt) ==
    Decimal(IF dt.hour % 12 = 0 THEN 12 ELSE dt.hour % 12) \o <<":">> \o Pad2(dt.minute)
    \o (IF dt.hour < 12 THEN <<" ", "A", "M", " ">> ELSE <<" ", "P", "M", " ">>)
    \o SundayFirst[DayOfWeek(dt.year, dt.month, dt.day) + 1] \o <<" ">>
    \o MonthNames[dt.month] \o <<" ">> \o Decimal(dt.day) \o <<",", " ">> \o Pad4(dt.year)

\* C9: easy_to_read_timestamp_string renders a date-time as
\* 'H:MM AM/PM Weekday Month Day, Year' on a 12-hour clock; the hour and the
\* day carry no leading zero, the minutes keep two digits and no other digit
\* is removed.
C9_EasyFormat ==
    /\ pc # "L109" => pc # "raised"
    /\ pc = "L111" => tweet_easy_timestamp = EasyToRead(tweet_local_datetime)

\* C9, witness: a time whose hour, minutes and day all print with a leading
\* zero under strftime, and a year with zeros of its own.
C9_Witness ==
    /\ pc = "L111"
    /\ tweet_local_datetime.hour = 21
    /\ tweet_local_datetime.minute = 0
    /\ tweet_local_datetime.day = 1
    /\ tweet_local_datetime.year = 2000

=============================================================================
